---- MODULE Spec2Model ----
(***************************************************************************)
(* Model of scripts/gen_icons_from_tools.py and scripts/gen_tray_icons.py. *)
(*                                                                         *)
(* Two specifications share the variables:                                 *)
(*   Spec      applies _contain_rgba to a bounded set of RGBA sources and  *)
(*             sizes, and then once more to its own output;                *)
(*   SpecMain  runs the two scripts statement by statement.                *)
(*                                                                         *)
(* A pixel is <<c, a>>: one colour channel c standing for r, g and b       *)
(* (the library treats the three alike) and the alpha channel a, both      *)
(* 8 bit.  An image is [w, h, px] with px a function on                    *)
(* (0..w-1) \X (0..h-1).                                                   *)
(***************************************************************************)
EXTENDS Integers, Sequences, FiniteSets

VARIABLES
    pc,         \* position of the run
    img,        \* Spec: the source image handed to _contain_rgba
    size,       \* Spec: the requested size
    tie,        \* Spec: where a float product at an exact half lands
    seed,       \* Spec: content of the source and of the filter's output
    ret1,       \* Spec: outcome of _contain_rgba(img, size)
    ret2,       \* Spec: outcome of _contain_rgba(ret1.canvas, size)
    script,     \* SpecMain: the script that runs
    srcExists,  \* SpecMain: whether tools.png exists
    base,       \* SpecMain: dimensions of the decoded tools.png
    files,      \* SpecMain: the output files
    outcome     \* SpecMain: how the run ended

vars == <<pc, img, size, tie, seed, ret1, ret2,
          script, srcExists, base, files, outcome>>

\* ------------------------------------------------------------ bounds
MaxDim == 4
MaxSize == 5
MaxSeed == 3

\* ------------------------------------------------------------ helpers
Max(a, b) == IF a >= b THEN a ELSE b

None == [w |-> 0, h |-> 0, px |-> <<>>]

Coords(w, h) == (0 .. (w - 1)) \X (0 .. (h - 1))

\* Pixel content of an image of w x h pixels whose content the model
\* does not compute (a decoded file, the output of the LANCZOS filter):
\* alphas and colours vary with the position and with the seed, and cover
\* 0, 255 and values in between.
Pattern(w, h, s) ==
    [w |-> w, h |-> h,
     px |-> [p \in Coords(w, h) |->
                <<(3 * s + p[1] + 2 * p[2]) % 256,
                  (85 * s + 7 * p[1] + 13 * p[2]) % 256>>]]

\* Python's round() of the float num/den (den > 0).  Away from an exact
\* half the float error cannot change the result.  At an exact half the
\* float product lands on the half or next to it: tie = FALSE is round() of
\* the exact half (to even), tie = TRUE the other neighbour
\* (7 x 14 at size 29 gives 15, not 14).
RoundEvenFloor(num, den) ==
    LET f == num \div den
        r == num % den
    IN  IF 2 * r < den THEN f
        ELSE IF 2 * r > den THEN f + 1
        ELSE IF f % 2 = 0 THEN f ELSE f + 1

RoundTie(num, den, t) ==
    LET f == num \div den
        r == num % den
        e == RoundEvenFloor(num, den)
    IN  IF 2 * r = den /\ t THEN (IF e = f THEN f + 1 ELSE f) ELSE e

\* ------------------------------------------------------------ _contain_rgba
\* line 15: scale = min(size / src_w, size / src_h), as <<num, den>>.
\* min(a, b) is b when b < a, else a.
ScaleInt(src_w, src_h, sz) ==
    IF sz * src_w < sz * src_h
    THEN <<sz \div src_h, 1>> ELSE <<sz \div src_w, 1>>

ScaleMax(src_w, src_h, sz) ==
    IF sz * src_w < sz * src_h THEN <<sz, src_w>> ELSE <<sz, src_h>>

Scale(src_w, src_h, sz) ==
    IF sz * src_w < sz * src_h THEN <<sz, src_h>> ELSE <<sz, src_w>>

\* lines 16-17: max(1, int(round(src * scale)))
DstDim(src, scale, t) == Max(1, RoundTie(src * scale[1], scale[2], t))

\* lines 21-22: (size - dst) // 2
OffsetNoHalf(sz, dst) == sz - dst

Offset(sz, dst) == (sz - dst) \div 2

\* lines 15-22: the placement computed for a non-degenerate source
Geometry(src_w, src_h, sz, t) ==
    LET scale == Scale(src_w, src_h, sz)
        dst_w == DstDim(src_w, scale, t)
        dst_h == DstDim(src_h, scale, t)
    IN  [dst_w |-> dst_w, dst_h |-> dst_h,
         ox |-> Offset(sz, dst_w), oy |-> Offset(sz, dst_h)]

\* lines 12-13: the only check the function makes
DegenerateWidthOnly(src_w, src_h) == src_w = 0

Degenerate(src_w, src_h) == src_w = 0 \/ src_h = 0

\* line 10: img.convert("RGBA"); the sources drawn are RGBA already, for
\* which convert returns a copy.
ConvertRGBA(image) == image

\* line 19: img.resize((w2, h2), LANCZOS).  A resize to the image's own
\* size returns a copy; otherwise the filter's output is an image of the
\* requested size whose content the model leaves arbitrary (seed).
Resize(image, w2, h2, s) ==
    IF image.w = w2 /\ image.h = h2 THEN image ELSE Pattern(w2, h2, s)

\* line 20: Image.new("RGBA", (size, size), (0, 0, 0, 0))
NewCanvasOpaque(sz) ==
    [w |-> sz, h |-> sz, px |-> [p \in Coords(sz, sz) |-> <<0, 255>>]]

NewCanvas(sz) ==
    [w |-> sz, h |-> sz, px |-> [p \in Coords(sz, sz) |-> <<0, 0>>]]

\* The library's 8-bit blend: DIV255(out * (255 - mask) + in * mask)
Div255(a) == LET tmp == a + 128 IN ((tmp \div 256) + tmp) \div 256

Blend(mask, out, in) == Div255(out * (255 - mask) + in * mask)

\* line 23: canvas.paste(im, (ox, oy), mask).  The box is clipped to the
\* canvas; inside it every channel, alpha included, is blended with the
\* mask's alpha.
Paste(canvas, im, ox, oy, mask) ==
    [canvas EXCEPT !.px =
        [p \in Coords(canvas.w, canvas.h) |->
            IF /\ ox <= p[1] /\ p[1] < ox + im.w
               /\ oy <= p[2] /\ p[2] < oy + im.h
            THEN LET q == <<p[1] - ox, p[2] - oy>>
                     m == mask.px[q][2]
                 IN  <<Blend(m, canvas.px[p][1], im.px[q][1]),
                       Blend(m, canvas.px[p][2], im.px[q][2])>>
            ELSE canvas.px[p]]]

Raised == [outcome |-> "ValueError", dst_w |-> 0, dst_h |-> 0,
           ox |-> 0, oy |-> 0, resized |-> None, canvas |-> None]

\* Whether _contain_rgba raises: the check of lines 12-13, and line 20,
\* where Image.new rejects a negative size with ValueError (a size of 0 is
\* accepted and gives an empty canvas).
Raises(src_w, src_h, sz) == Degenerate(src_w, src_h) \/ sz < 0

\* lines 8-24
ContainRgba(image, sz, t, s) ==
    LET im == ConvertRGBA(image)
    IN  IF Raises(im.w, im.h, sz) THEN Raised
        ELSE LET g == Geometry(im.w, im.h, sz, t)
                 resized == Resize(im, g.dst_w, g.dst_h, s)
             IN       [outcome |-> "ok", dst_w |-> g.dst_w, dst_h |-> g.dst_h,
                       ox |-> g.ox, oy |-> g.oy, resized |-> resized,
                       canvas |-> Paste(NewCanvas(sz), resized, g.ox, g.oy, resized)]

\* ------------------------------------------------------------ Spec
NotCalled == [outcome |-> "none", dst_w |-> 0, dst_h |-> 0,
              ox |-> 0, oy |-> 0, resized |-> None, canvas |-> None]

OutNames == {"icon.png", "icon.ico", "tools-16.png", "tools-32.png"}

NoFiles == [n \in OutNames |-> [written |-> FALSE, frames |-> <<>>]]

\* The inputs: every small source and size, and the 100 x 50 source at
\* size 64.
Inputs ==
    ((0 .. MaxDim) \X (0 .. MaxDim) \X ((-1) .. MaxSize) \X (0 .. MaxSeed))
        \cup {<<100, 50, 64, 1>>}

Init ==
    /\ pc = "call"
    /\ \E i \in Inputs :
          /\ img = Pattern(i[1], i[2], i[4])
          /\ size = i[3]
          /\ seed = i[4]
    /\ tie \in BOOLEAN
    /\ ret1 = NotCalled
    /\ ret2 = NotCalled
    /\ script = "none"
    /\ srcExists = FALSE
    /\ base = <<0, 0>>
    /\ files = NoFiles
    /\ outcome = "none"

\* _contain_rgba(img, size)
Call ==
    /\ pc = "call"
    /\ ret1' = ContainRgba(img, size, tie, seed)
    /\ pc' = IF ret1'.outcome = "ok" THEN "again" ELSE "raised"
    /\ UNCHANGED <<img, size, tie, seed, ret2,
                   script, srcExists, base, files, outcome>>

\* _contain_rgba(_contain_rgba(img, size), size)
CallAgain ==
    /\ pc = "again"
    /\ ret2' = ContainRgba(ret1.canvas, size, tie, seed)
    /\ pc' = IF ret2'.outcome = "ok" THEN "done" ELSE "raised"
    /\ UNCHANGED <<img, size, tie, seed, ret1,
                   script, srcExists, base, files, outcome>>

Next == Call \/ CallAgain

Spec == Init /\ [][Next]_vars

\* ------------------------------------------------------------ properties of _contain_rgba
Called == pc # "call"

ValidCall == img.w >= 1 /\ img.h >= 1 /\ size >= 1

\* the pixels of an image outside the rectangle [x0, x0+w) x [y0, y0+h)
Outside(image, x0, y0, w, h) ==
    {p \in DOMAIN image.px :
        ~(x0 <= p[1] /\ p[1] < x0 + w /\ y0 <= p[2] /\ p[2] < y0 + h)}

\* C1: for a source of at least 1 x 1 and a size of at least 1,
\* _contain_rgba returns a canvas of exactly size x size and the placed
\* rectangle lies wholly inside it.
C1_Contained ==
    (Called /\ ValidCall) =>
        /\ ret1.outcome = "ok"
        /\ ret1.canvas.w = size /\ ret1.canvas.h = size
        /\ DOMAIN ret1.canvas.px = Coords(size, size)
        /\ 1 <= ret1.dst_w /\ ret1.dst_w <= size
        /\ 1 <= ret1.dst_h /\ ret1.dst_h <= size
        /\ 0 <= ret1.ox /\ 0 <= ret1.oy
        /\ ret1.ox + ret1.dst_w <= size
        /\ ret1.oy + ret1.dst_h <= size

C1_Witness ==
    /\ Called /\ ValidCall
    /\ img.w = 3 /\ img.h = 1 /\ size = MaxSize
    /\ ret1.oy > 0 /\ ret1.dst_h < size

\* C3 as stated: a source wider than high is padded at the top and the
\* bottom (ox = 0, oy > 0), a source higher than wide at the left and the
\* right (oy = 0, ox > 0).
C3_Original ==
    (Called /\ ValidCall) =>
        /\ img.w > img.h => (ret1.ox = 0 /\ ret1.oy > 0)
        /\ img.h > img.w => (ret1.oy = 0 /\ ret1.ox > 0)

\* C3 as amended: a source wider than high gets no padding at the left
\* and the right (ox = 0) and oy >= 0, with oy > 0 exactly when the
\* scaled height leaves at least two rows (size - dst_h >= 2);
\* symmetrically for a source higher than wide.
C3_PaddingSide ==
    (Called /\ ValidCall) =>
        /\ img.w > img.h =>
              /\ ret1.ox = 0 /\ ret1.dst_w = size /\ ret1.oy >= 0
              /\ (ret1.oy > 0 <=> size - ret1.dst_h >= 2)
        /\ img.h > img.w =>
              /\ ret1.oy = 0 /\ ret1.dst_h = size /\ ret1.ox >= 0
              /\ (ret1.ox > 0 <=> size - ret1.dst_w >= 2)

\* a wider source whose scaled height leaves less than two rows
C3_Witness ==
    /\ Called /\ ValidCall
    /\ img.w > img.h /\ ret1.ox = 0 /\ ret1.oy = 0
    /\ ret1.dst_h = size - 1

\* C4 as stated: a size of zero or less on a source of at least 1 x 1
\* ends in the invalid-input error and returns no image.
C4_NonPositiveSizeRejected ==
    (Called /\ img.w >= 1 /\ img.h >= 1 /\ size <= 0) =>
        (ret1.outcome = "ValueError" /\ ret1.canvas = None)

\* C6: a source of width 0 or height 0 raises ValueError at every size
\* and no image is returned.
C6_DegenerateRaises ==
    (Called /\ (img.w = 0 \/ img.h = 0)) =>
        /\ pc = "raised"
        /\ ret1.outcome = "ValueError"
        /\ ret1.canvas = None

C6_Witness ==
    pc = "raised" /\ img.w = 0 /\ img.h = MaxDim /\ size = MaxSize

\* C7: a square source fills the canvas: dst_w = dst_h = size and
\* ox = oy = 0.
C7_SquareFills ==
    (Called /\ ValidCall /\ img.w = img.h) =>
        /\ ret1.outcome = "ok"
        /\ ret1.dst_w = size /\ ret1.dst_h = size
        /\ ret1.ox = 0 /\ ret1.oy = 0

C7_Witness ==
    /\ Called /\ img.w = 3 /\ img.h = 3 /\ size = 4
    /\ ret1.outcome = "ok" /\ ret1.resized.w = 4

\* C8 as stated: _contain_rgba applied to its own output at the same size
\* returns that output pixel for pixel.
C8_Idempotent ==
    (pc = "done" /\ ValidCall) =>
        /\ ret2.dst_w = size /\ ret2.dst_h = size
        /\ ret2.ox = 0 /\ ret2.oy = 0
        /\ ret2.canvas = ret1.canvas

\* C9: every pixel of the returned canvas outside the placed rectangle
\* is fully transparent; the 100 x 50 source at size 64 is placed as
\* 64 x 32 at (0, 16) and rows 0-15 and 48-63 are transparent.
C9_PaddingTransparent ==
    /\ ret1.outcome = "ok" =>
          \A p \in Outside(ret1.canvas, ret1.ox, ret1.oy, ret1.dst_w, ret1.dst_h) :
              ret1.canvas.px[p][2] = 0
    /\ ret2.outcome = "ok" =>
          \A p \in Outside(ret2.canvas, ret2.ox, ret2.oy, ret2.dst_w, ret2.dst_h) :
              ret2.canvas.px[p][2] = 0
    /\ (Called /\ img.w = 100 /\ img.h = 50 /\ size = 64) =>
          /\ ret1.dst_w = 64 /\ ret1.dst_h = 32
          /\ ret1.ox = 0 /\ ret1.oy = 16
          /\ \A x \in 0 .. 63 : \A y \in (0 .. 15) \cup (48 .. 63) :
                ret1.canvas.px[<<x, y>>][2] = 0

C9_Witness ==
    /\ Called /\ img.w = 100 /\ img.h = 50 /\ size = 64
    /\ ret1.outcome = "ok"
    /\ Cardinality(Outside(ret1.canvas, ret1.ox, ret1.oy, ret1.dst_w, ret1.dst_h)) = 2048

\* C10 as stated: inside the placed rectangle the alpha of the canvas
\* equals the alpha of the resized image.
C10_AlphaRetained ==
    ret1.outcome = "ok" =>
        \A q \in DOMAIN ret1.resized.px :
            LET p == <<ret1.ox + q[1], ret1.oy + q[2]>>
            IN  p \in DOMAIN ret1.canvas.px =>
                    ret1.canvas.px[p][2] = ret1.resized.px[q][2]

\* ------------------------------------------------------------ the scripts
PngSize == 512

ico_sizes == <<16, 24, 32, 48, 64, 128, 256>>

Square(sizes) == [i \in DOMAIN sizes |-> <<sizes[i], sizes[i]>>]

\* The dimensions of the image _contain_rgba returns, or "ValueError"
\* (lines 8-24, without the pixels).
ContainSize(src_w, src_h, sz) ==
    IF Raises(src_w, src_h, sz) THEN "ValueError" ELSE <<sz, sz>>

\* lines 50-54: im.save(out_ico, format="ICO", sizes=...) with no
\* append_images.  The writer keeps, in order, the requested sizes that
\* exceed neither the saved image nor 256 x 256, and makes each frame from
\* the saved image.
IcoFrames(im, sizes) ==
    LET Fits(sz) == sz[1] <= im[1] /\ sz[2] <= im[2] /\ sz[1] <= 256 /\ sz[2] <= 256
    IN  SelectSeq(sizes, Fits)

Saved(frames) == [written |-> TRUE, frames |-> frames]

InitMain ==
    /\ pc = "start"
    /\ script \in {"gen_icons_from_tools", "gen_tray_icons"}
    /\ srcExists \in BOOLEAN
    /\ base \in (0 .. MaxDim) \X (0 .. MaxDim)
    /\ files = NoFiles
    /\ outcome = "running"
    /\ img = None
    /\ size = 0
    /\ tie = FALSE
    /\ seed = 0
    /\ ret1 = NotCalled
    /\ ret2 = NotCalled

specVars == <<img, size, tie, seed, ret1, ret2>>

\* gen_icons_from_tools.py lines 32-33
CheckExists ==
    /\ script = "gen_icons_from_tools" /\ pc = "start"
    /\ IF srcExists
       THEN pc' = "open" /\ UNCHANGED outcome
       ELSE pc' = "failed" /\ outcome' = "SystemExit"
    /\ UNCHANGED <<script, srcExists, base, files, specVars>>

\* line 39
Open ==
    /\ script = "gen_icons_from_tools" /\ pc = "open"
    /\ pc' = "png"
    /\ UNCHANGED <<script, srcExists, base, files, outcome, specVars>>

\* lines 42-43
SavePng ==
    /\ script = "gen_icons_from_tools" /\ pc = "png"
    /\ LET png512 == ContainSize(base[1], base[2], PngSize)
       IN  IF png512 = "ValueError"
           THEN pc' = "failed" /\ outcome' = "ValueError" /\ UNCHANGED files
           ELSE /\ files' = [files EXCEPT !["icon.png"] = Saved(<<png512>>)]
                /\ pc' = "ico"
                /\ UNCHANGED outcome
    /\ UNCHANGED <<script, srcExists, base, specVars>>

\* lines 46-54
SaveIco ==
    /\ script = "gen_icons_from_tools" /\ pc = "ico"
    /\ LET ico_imgs == [i \in DOMAIN ico_sizes |->
                            ContainSize(base[1], base[2], ico_sizes[i])]
       IN  IF \E i \in DOMAIN ico_imgs : ico_imgs[i] = "ValueError"
           THEN pc' = "failed" /\ outcome' = "ValueError" /\ UNCHANGED files
           ELSE /\ files' = [files EXCEPT !["icon.ico"] =
                                Saved(IcoFrames(ico_imgs[1], Square(ico_sizes)))]
                /\ pc' = "print"
                /\ UNCHANGED outcome
    /\ UNCHANGED <<script, srcExists, base, specVars>>

\* lines 56-57
Report ==
    /\ script = "gen_icons_from_tools" /\ pc = "print"
    /\ pc' = "done" /\ outcome' = "ok"
    /\ UNCHANGED <<script, srcExists, base, files, specVars>>

\* gen_tray_icons.py line 11: Image.open raises FileNotFoundError for a
\* missing file.
TrayOpen ==
    /\ script = "gen_tray_icons" /\ pc = "start"
    /\ IF srcExists
       THEN pc' = "resize" /\ UNCHANGED outcome
       ELSE pc' = "failed" /\ outcome' = "FileNotFoundError"
    /\ UNCHANGED <<script, srcExists, base, files, specVars>>

\* lines 13-14: the two resizes take the source as it is.
TrayResize ==
    /\ script = "gen_tray_icons" /\ pc = "resize"
    /\ pc' = "save16"
    /\ UNCHANGED <<script, srcExists, base, files, outcome, specVars>>

\* line 16
TraySave16 ==
    /\ script = "gen_tray_icons" /\ pc = "save16"
    /\ files' = [files EXCEPT !["tools-16.png"] = Saved(<< <<16, 16>> >>)]
    /\ pc' = "save32"
    /\ UNCHANGED <<script, srcExists, base, outcome, specVars>>

\* line 17
TraySave32 ==
    /\ script = "gen_tray_icons" /\ pc = "save32"
    /\ files' = [files EXCEPT !["tools-32.png"] = Saved(<< <<32, 32>> >>)]
    /\ pc' = "print"
    /\ UNCHANGED <<script, srcExists, base, outcome, specVars>>

\* lines 19-20
TrayReport ==
    /\ script = "gen_tray_icons" /\ pc = "print"
    /\ pc' = "done" /\ outcome' = "ok"
    /\ UNCHANGED <<script, srcExists, base, files, specVars>>

NextMain ==
    \/ CheckExists \/ Open \/ SavePng \/ SaveIco \/ Report
    \/ TrayOpen \/ TrayResize \/ TraySave16 \/ TraySave32 \/ TrayReport

SpecMain == InitMain /\ [][NextMain]_vars

\* ------------------------------------------------------------ properties of the scripts
\* C2 as stated: the icon container a completed run writes holds exactly
\* the seven frames 16, 24, 32, 48, 64, 128 and 256.
C2_SevenFrames ==
    (script = "gen_icons_from_tools" /\ pc = "done") =>
        /\ files["icon.ico"].written
        /\ Len(files["icon.ico"].frames) = 7
        /\ files["icon.ico"].frames = Square(ico_sizes)

====
